---------------------------- MODULE Spec2Model ----------------------------
(***************************************************************************)
(* Model of cmdex (src/main.go): a command-line alias manager.  One run of *)
(* the program opens the bbolt file cmdex.db, makes sure the bucket        *)
(* "commands" exists, hands the argument vector to the cobra root command  *)
(* and exits.  The bucket outlives the process, so the model runs the      *)
(* program again and again over the same bucket.                           *)
(*                                                                         *)
(* A Go string is a sequence of one-character strings; an argument vector  *)
(* is a sequence of those.  Words beginning with "-" (flags) are outside   *)
(* the input sets.                                                         *)
(***************************************************************************)
EXTENDS Integers, Sequences, FiniteSets, TLC

VARIABLES
    store,      \* contents of bucket "commands" in cmdex.db: key -> value
    bucket,     \* whether bucket "commands" exists in cmdex.db
    pc,         \* position of the running process in main()
    argv,       \* os.Args[1:] of the running process
    opened,     \* bolt.Open succeeded in this process
    closed,     \* db.Close() was performed in this process
    txs,        \* number of db.Update / db.View calls made by this process
    waits,      \* number of cmd.Run() calls made by this process
    command,    \* runCommand's local "command" after the substitution loop
    execs,      \* the exec.Command(name, args...) values handed to cmd.Run()
    out,        \* lines printed by this process
    exitCode,   \* exit status of the process, read once pc = "exited"
    written     \* history: alias -> command words of its last confirmed save/edit

vars == <<store, bucket, pc, argv, opened, closed, txs, waits, command,
          execs, out, exitCode, written>>

-----------------------------------------------------------------------------
(* Bounds of the input sets.                                               *)

MaxCmdWords == 2
MaxArgs == 2

-----------------------------------------------------------------------------
(* Strings.                                                                *)

SAVE == <<"s", "a", "v", "e">>
LIST == <<"l", "i", "s", "t">>
EDIT == <<"e", "d", "i", "t">>
RUN  == <<"r", "u", "n">>

EmptyStr == <<>>

\* Byte values of the characters that occur in keys.
Code(c) ==
    CASE c = " " -> 32 [] c = "$" -> 36 [] c = "0" -> 48 [] c = "1" -> 49
      [] c = "2" -> 50 [] c = "a" -> 97 [] c = "g" -> 103 [] c = "h" -> 104
      [] OTHER -> 127

DigitChar(d) ==
    CASE d = 0 -> "0" [] d = 1 -> "1" [] d = 2 -> "2" [] d = 3 -> "3"
      [] d = 4 -> "4" [] d = 5 -> "5" [] d = 6 -> "6" [] d = 7 -> "7"
      [] d = 8 -> "8" [] d = 9 -> "9"

\* unicode.IsSpace on the ASCII range.
IsSpace(c) == c \in {" ", "\t", "\n", "\r", "\f"}

Drop(s, k) == SubSeq(s, k + 1, Len(s))

HasPrefix(s, p) == Len(p) <= Len(s) /\ SubSeq(s, 1, Len(p)) = p

RECURSIVE Itoa(_)
\* fmt's %d of a positive int.
Itoa(n) == IF n < 10 THEN <<DigitChar(n)>>
           ELSE Itoa(n \div 10) \o <<DigitChar(n % 10)>>

RECURSIVE Join(_, _)
\* strings.Join(elems, sep)
Join(elems, sep) ==
    IF elems = <<>> THEN EmptyStr
    ELSE IF Len(elems) = 1 THEN elems[1]
    ELSE elems[1] \o sep \o Join(Tail(elems), sep)

RECURSIVE ReplaceAll(_, _, _)
\* strings.ReplaceAll(s, old, new) for a non-empty old: the non-overlapping
\* occurrences of old, found left to right, each become new.
ReplaceAll(s, old, new) ==
    IF s = <<>> THEN <<>>
    ELSE IF HasPrefix(s, old) THEN new \o ReplaceAll(Drop(s, Len(old)), old, new)
    ELSE <<Head(s)>> \o ReplaceAll(Tail(s), old, new)

RECURSIVE FieldsFrom(_, _)
FieldsFrom(s, cur) ==
    IF s = <<>> THEN (IF cur = <<>> THEN <<>> ELSE <<cur>>)
    ELSE IF IsSpace(Head(s))
         THEN (IF cur = <<>> THEN <<>> ELSE <<cur>>) \o FieldsFrom(Tail(s), <<>>)
         ELSE FieldsFrom(Tail(s), Append(cur, Head(s)))

\* strings.Fields(s)
Fields(s) == FieldsFrom(s, <<>>)

-----------------------------------------------------------------------------
(* Inputs: the argument vectors the program is started with.               *)

Aliases == {EmptyStr, <<"g">>, <<"h">>}

\* Command words given to save and edit; a quoted word may hold a space.
CmdWords == {<<"$", "1", " ", "$", "2">>, <<"$", "1", "0">>}

\* Call-time arguments given to run.
CallArgs == {EmptyStr, <<"a">>, <<"$", "2">>}

SeqsUpTo(S, n) == UNION {[1..k -> S] : k \in 0..n}

Invocations ==
    {<<>>, <<LIST>>, <<SAVE>>, <<EDIT>>, <<RUN>>}
    \cup {<<sub, a>> \o w : sub \in {SAVE, EDIT}, a \in Aliases,
                            w \in SeqsUpTo(CmdWords, MaxCmdWords)}
    \cup {<<RUN, a>> \o w : a \in Aliases, w \in SeqsUpTo(CallArgs, MaxArgs)}
    \cup {<<a>> \o w : a \in Aliases, w \in SeqsUpTo(CallArgs, MaxArgs)}

-----------------------------------------------------------------------------
(* The bucket (bbolt), as main.go uses it.                                 *)

NoErr == ""

\* b.Get(key): nil when the key is absent; a stored empty value is not nil.
Get(b, key) ==
    IF key \in DOMAIN b THEN [nil |-> FALSE, v |-> b[key]]
    ELSE [nil |-> TRUE, v |-> EmptyStr]

\* Put gone wrong: the new pair replaces the bucket's content.
PutTruncating(b, key, value) ==
    IF key = EmptyStr THEN [err |-> "key required", b |-> b]
    ELSE [err |-> NoErr, b |-> [k \in {key} |-> value]]

\* b.Put(key, value): inserts or overwrites; an empty key is refused.
Put(b, key, value) ==
    IF key = EmptyStr THEN [err |-> "key required", b |-> b]
    ELSE [err |-> NoErr, b |-> [k \in DOMAIN b \cup {key} |->
                                   IF k = key THEN value ELSE b[k]]]

\* db.Update(fn): fn's error rolls the transaction back; otherwise the commit
\* writes the file, which fails when the disk does (ioErr).
Update(b, res, ioErr) ==
    IF res.err # NoErr THEN [err |-> res.err, b |-> b]
    ELSE IF ioErr THEN [err |-> "write failed", b |-> b]
    ELSE [err |-> NoErr, b |-> res.b]

\* Lexicographic byte order, the order of a bucket's keys.
RECURSIVE KeyLess(_, _)
KeyLess(x, y) ==
    IF y = <<>> THEN FALSE
    ELSE IF x = <<>> THEN TRUE
    ELSE IF Code(Head(x)) # Code(Head(y)) THEN Code(Head(x)) < Code(Head(y))
    ELSE KeyLess(Tail(x), Tail(y))

RECURSIVE ForEach(_, _)
\* b.ForEach(fn) with fn printing "%s: %s\n" of k, v: the lines, in key order.
ForEach(b, keys) ==
    IF keys = {} THEN <<>>
    ELSE LET k == CHOOSE x \in keys : \A y \in keys \ {x} : KeyLess(x, y)
         IN  <<[fmt |-> "%s: %s", err |-> NoErr, args |-> <<k, b[k]>>]>>
             \o ForEach(b, keys \ {k})

-----------------------------------------------------------------------------
(* The cobra command tree built in main(): rootCmd (Run set, Args unset)   *)
(* with the subcommands save, list, edit, run.  The commands cobra adds on *)
(* its own (help, completion) are named by no word of the input sets.      *)

SubNames == {SAVE, LIST, EDIT, RUN}

CmdName(w) ==
    CASE w = SAVE -> "save" [] w = LIST -> "list" [] w = EDIT -> "edit"
      [] w = RUN -> "run"

\* The words of args that can name a command: cobra skips empty words.
stripFlags(args) == SelectSeq(args, LAMBDA s : s # EmptyStr)

RECURSIVE argsMinusFirstX(_, _)
argsMinusFirstX(args, x) ==
    IF args = <<>> THEN <<>>
    ELSE IF Head(args) = x THEN Tail(args)
    ELSE <<Head(args)>> \o argsMinusFirstX(Tail(args), x)

\* cobra.MinimumNArgs(n) of each command; rootCmd and listCmd set no Args.
MinimumNArgs(cmd) ==
    CASE cmd = "save" -> 2 [] cmd = "edit" -> 2 [] cmd = "run" -> 1
      [] OTHER -> 0

\* rootCmd.Execute() up to the call of a Run function: which command's Run
\* is called, with which args, or the usage error returned instead.  A root
\* command that has subcommands and no Args refuses a first word that names
\* none of them ("unknown command").
Find(args) ==
    LET w == stripFlags(args) IN
    IF w = <<>> THEN [cmd |-> "root", args |-> args, err |-> NoErr]
    ELSE IF w[1] \in SubNames
         THEN LET c == CmdName(w[1])
                  a == argsMinusFirstX(args, w[1])
              IN  [cmd |-> c, args |-> a,
                   err |-> IF Len(a) < MinimumNArgs(c)
                           THEN "requires at least n arg(s)" ELSE NoErr]
         ELSE [cmd |-> "root", args |-> args, err |-> "unknown command"]

-----------------------------------------------------------------------------
(* The Run functions.  Each is the whole handler: the bucket it leaves,    *)
(* the lines it prints, the transactions it makes.                         *)

Line(f, e, a) == [fmt |-> f, err |-> e, args |-> a]

\* saveCmd gone wrong: only the first command word is stored.
saveCmdFirstWord(b, args, ioErr) ==
    LET alias == args[1]
        r == Update(b, Put(b, alias, args[2]), ioErr)
    IN  [b |-> r.b, txs |-> 1,
         out |-> IF r.err # NoErr
                 THEN <<Line("Error saving command: %v", r.err, <<>>)>>
                 ELSE <<Line("Command saved with alias: %s", NoErr, <<alias>>)>>]

\* saveCmd's Run: join the command words, Put under the alias, report.
saveCmd(b, args, ioErr) ==
    LET alias == args[1]
        cmdText == Join(Tail(args), <<" ">>)
        r == Update(b, Put(b, alias, cmdText), ioErr)
    IN  [b |-> r.b, txs |-> 1,
         out |-> IF r.err # NoErr
                 THEN <<Line("Error saving command: %v", r.err, <<>>)>>
                 ELSE <<Line("Command saved with alias: %s", NoErr, <<alias>>)>>]

\* listCmd's Run: print every pair of the bucket.
listCmd(b) ==
    [b |-> b, txs |-> 1, out |-> ForEach(b, DOMAIN b)]

\* editCmd gone wrong: the existence check is missing.
editCmdNoCheck(b, args, ioErr) ==
    LET alias == args[1]
        r == Update(b, Put(b, alias, Join(Tail(args), <<" ">>)), ioErr)
    IN  [b |-> r.b, txs |-> 1,
         out |-> IF r.err # NoErr
                 THEN <<Line("Error editing command: %v", r.err, <<>>)>>
                 ELSE <<Line("Command updated for alias: %s", NoErr, <<alias>>)>>]

\* editCmd gone wrong: the existence check is a View of its own, made before
\* the Update.
editCmdViewThenUpdate(b, args, ioErr) ==
    LET alias == args[1]
        fn == IF Get(b, alias).nil THEN [err |-> "alias not found", b |-> b]
              ELSE Put(b, alias, Join(Tail(args), <<" ">>))
        r == Update(b, fn, ioErr)
    IN  [b |-> r.b, txs |-> 2,
         out |-> IF r.err # NoErr
                 THEN <<Line("Error editing command: %v", r.err, <<>>)>>
                 ELSE <<Line("Command updated for alias: %s", NoErr, <<alias>>)>>]

\* editCmd's Run: Put under the alias only when Get finds it.
editCmd(b, args, ioErr) ==
    LET alias == args[1]
        newCommand == Join(Tail(args), <<" ">>)
        fn == IF Get(b, alias).nil THEN [err |-> "alias not found", b |-> b]
              ELSE Put(b, alias, newCommand)
        r == Update(b, fn, ioErr)
    IN  [b |-> r.b, txs |-> 1,
         out |-> IF r.err # NoErr
                 THEN <<Line("Error editing command: %v", r.err, <<>>)>>
                 ELSE <<Line("Command updated for alias: %s", NoErr, <<alias>>)>>]

RECURSIVE Substitute(_, _, _)
\* The loop of runCommand: for i, arg := range args, from index i on.
Substitute(cmdText, args, i) ==
    IF i > Len(args) THEN cmdText
    ELSE LET placeholder == <<"$">> \o Itoa(i)
         IN  Substitute(ReplaceAll(cmdText, placeholder, args[i]), args, i + 1)

\* runCommand gone wrong: the nil check of the looked-up value is missing, an
\* absent alias reads as an empty template.
runCommandNilAsEmpty(b, alias, args, runErr) ==
    LET cmdText == Substitute(Get(b, alias).v, args, 1)
        cmdParts == Fields(cmdText)
    IN  IF Len(cmdParts) = 0
        THEN [b |-> b, txs |-> 1, waits |-> 0, command |-> cmdText,
              execs |-> <<>>, out |-> <<Line("Empty command", NoErr, <<>>)>>]
        ELSE [b |-> b, txs |-> 1, waits |-> 1, command |-> cmdText,
              execs |-> <<[name |-> cmdParts[1], args |-> Tail(cmdParts)]>>,
              out |-> IF runErr
                      THEN <<Line("Error executing command: %v", "exec", <<>>)>>
                      ELSE <<>>]

\* runCommand(alias, args); runErr is whether cmd.Run() returns an error.
runCommand(b, alias, args, runErr) ==
    LET v == Get(b, alias) IN
    IF v.nil
    THEN [b |-> b, txs |-> 1, waits |-> 0, command |-> EmptyStr, execs |-> <<>>,
          out |-> <<Line("Error retrieving command: %v", "alias not found", <<>>)>>]
    ELSE LET cmdText == Substitute(v.v, args, 1)
             cmdParts == Fields(cmdText)
         IN  IF Len(cmdParts) = 0
             THEN [b |-> b, txs |-> 1, waits |-> 0, command |-> cmdText,
                   execs |-> <<>>, out |-> <<Line("Empty command", NoErr, <<>>)>>]
             ELSE [b |-> b, txs |-> 1, waits |-> 1, command |-> cmdText,
                   execs |-> <<[name |-> cmdParts[1], args |-> Tail(cmdParts)]>>,
                   out |-> IF runErr
                           THEN <<Line("Error executing command: %v", "exec", <<>>)>>
                           ELSE <<>>]

\* rootCmd's Run: a first argument is an alias to run; none prints the help.
rootRun(b, args, runErr) ==
    IF Len(args) > 0 THEN runCommand(b, args[1], Tail(args), runErr)
    ELSE [b |-> b, txs |-> 0, waits |-> 0, command |-> EmptyStr, execs |-> <<>>,
          out |-> <<Line("help", NoErr, <<>>)>>]

-----------------------------------------------------------------------------
(* The process: main().                                                    *)

Init ==
    /\ store = <<>>
    /\ bucket = FALSE
    /\ written = <<>>
    /\ pc = "idle"
    /\ argv = <<>>
    /\ opened = FALSE
    /\ closed = FALSE
    /\ txs = 0
    /\ waits = 0
    /\ command = EmptyStr
    /\ execs = <<>>
    /\ out = <<>>
    /\ exitCode = 0

\* The shell starts the program with an argument vector.
Start ==
    /\ pc = "idle"
    /\ \E a \in Invocations : argv' = a
    /\ pc' = "main"
    /\ UNCHANGED <<store, bucket, written, opened, closed, txs, waits, command,
                   execs, out, exitCode>>

\* The exited process is gone; only cmdex.db remains of it.
Reap ==
    /\ pc = "exited"
    /\ pc' = "idle"
    /\ argv' = <<>>
    /\ opened' = FALSE
    /\ closed' = FALSE
    /\ txs' = 0
    /\ waits' = 0
    /\ command' = EmptyStr
    /\ execs' = <<>>
    /\ out' = <<>>
    /\ exitCode' = 0
    /\ UNCHANGED <<store, bucket, written>>

\* log.Fatal(err): print and os.Exit(1); deferred calls do not run.
Fatal ==
    /\ out' = Append(out, Line("log.Fatal", "fatal", <<>>))
    /\ exitCode' = 1
    /\ pc' = "exited"

\* bolt.Open and defer db.Close().
Open ==
    /\ pc = "main"
    /\ \E ok \in BOOLEAN :
          IF ok THEN /\ opened' = TRUE
                     /\ pc' = "opened"
                     /\ UNCHANGED <<out, exitCode>>
          ELSE /\ Fatal
               /\ UNCHANGED opened
    /\ UNCHANGED <<store, bucket, written, argv, closed, txs, waits, command, execs>>

\* db.Update(CreateBucketIfNotExists("commands")).
CreateBucket ==
    /\ pc = "opened"
    /\ txs' = txs + 1
    /\ \E ioErr \in BOOLEAN :
          IF ioErr THEN /\ Fatal
                        /\ UNCHANGED bucket
          ELSE /\ bucket' = TRUE
               /\ pc' = "ready"
               /\ UNCHANGED <<out, exitCode>>
    /\ UNCHANGED <<store, written, argv, opened, closed, waits, command, execs>>

\* rootCmd.Execute() returns an error: fmt.Println(err); os.Exit(1).
UsageError ==
    /\ pc = "ready"
    /\ Find(argv).err # NoErr
    /\ out' = Append(out, Line("%v", Find(argv).err, <<>>))
    /\ exitCode' = 1
    /\ pc' = "exited"
    /\ UNCHANGED <<store, bucket, written, argv, opened, closed, txs, waits,
                   command, execs>>

Dispatched(c) == pc = "ready" /\ Find(argv).err = NoErr /\ Find(argv).cmd = c

Confirmed(lines) == lines # <<>> /\ lines[1].err = NoErr

Record(w, args, lines) ==
    IF Confirmed(lines)
    THEN [k \in DOMAIN w \cup {args[1]} |-> IF k = args[1] THEN Tail(args) ELSE w[k]]
    ELSE w

Save ==
    /\ Dispatched("save")
    /\ \E ioErr \in BOOLEAN :
          LET r == saveCmd(store, Find(argv).args, ioErr) IN
          /\ store' = r.b
          /\ txs' = txs + r.txs
          /\ out' = out \o r.out
          /\ written' = Record(written, Find(argv).args, r.out)
    /\ pc' = "returned"
    /\ UNCHANGED <<bucket, argv, opened, closed, waits, command, execs, exitCode>>

List ==
    /\ Dispatched("list")
    /\ LET r == listCmd(store) IN
          /\ store' = r.b
          /\ txs' = txs + r.txs
          /\ out' = out \o r.out
    /\ pc' = "returned"
    /\ UNCHANGED <<bucket, written, argv, opened, closed, waits, command, execs,
                   exitCode>>

Edit ==
    /\ Dispatched("edit")
    /\ \E ioErr \in BOOLEAN :
          LET r == editCmd(store, Find(argv).args, ioErr) IN
          /\ store' = r.b
          /\ txs' = txs + r.txs
          /\ out' = out \o r.out
          /\ written' = Record(written, Find(argv).args, r.out)
    /\ pc' = "returned"
    /\ UNCHANGED <<bucket, argv, opened, closed, waits, command, execs, exitCode>>

Ran(r) ==
    /\ store' = r.b
    /\ txs' = txs + r.txs
    /\ waits' = waits + r.waits
    /\ command' = r.command
    /\ execs' = execs \o r.execs
    /\ out' = out \o r.out
    /\ pc' = "returned"
    /\ UNCHANGED <<bucket, written, argv, opened, closed, exitCode>>

\* runCmd's Run.
Run ==
    /\ Dispatched("run")
    /\ \E runErr \in BOOLEAN :
          Ran(runCommand(store, Find(argv).args[1], Tail(Find(argv).args), runErr))

\* rootCmd's Run.
Root ==
    /\ Dispatched("root")
    /\ \E runErr \in BOOLEAN : Ran(rootRun(store, Find(argv).args, runErr))

\* Return gone wrong: a handler's error becomes the exit status.
ReturnErrStatus ==
    /\ pc = "returned"
    /\ closed' = TRUE
    /\ exitCode' = IF \E i \in 1..Len(out) : out[i].err # NoErr THEN 1 ELSE 0
    /\ pc' = "exited"
    /\ UNCHANGED <<store, bucket, written, argv, opened, txs, waits, command,
                   execs, out>>

\* main returns: the deferred db.Close() runs and the process exits 0.
Return ==
    /\ pc = "returned"
    /\ closed' = TRUE
    /\ exitCode' = 0
    /\ pc' = "exited"
    /\ UNCHANGED <<store, bucket, written, argv, opened, txs, waits, command,
                   execs, out>>

Next ==
    \/ Start
    \/ Open
    \/ CreateBucket
    \/ UsageError
    \/ Save
    \/ List
    \/ Edit
    \/ Run
    \/ Root
    \/ Return
    \/ Reap

Spec == Init /\ [][Next]_vars

-----------------------------------------------------------------------------
(* Vocabulary of the properties.                                           *)

\* The handler c has run and main has not yet returned.
Called(c) == pc = "returned" /\ Find(argv).cmd = c

\* runCommand has run, from runCmd or from rootCmd.
RunCalled ==
    /\ pc = "returned"
    /\ Find(argv).cmd \in {"run", "root"}
    /\ Len(Find(argv).args) > 0

RunAlias == Find(argv).args[1]

RunArgs == Tail(Find(argv).args)

FatalLogged == out # <<>> /\ out[Len(out)].fmt = "log.Fatal"

UsageReported == out # <<>> /\ out[Len(out)].fmt = "%v"

IsDigit(c) == c \in {"0", "1", "2", "3", "4", "5", "6", "7", "8", "9"}

DigitVal(c) == CHOOSE d \in 0..9 : DigitChar(d) = c

RECURSIVE DigitRun(_)
\* The longest prefix of s made of digits.
DigitRun(s) ==
    IF s # <<>> /\ IsDigit(Head(s)) THEN <<Head(s)>> \o DigitRun(Tail(s)) ELSE <<>>

RECURSIVE Atoi(_, _)
Atoi(ds, acc) ==
    IF ds = <<>> THEN acc ELSE Atoi(Tail(ds), 10 * acc + DigitVal(Head(ds)))

RECURSIVE Segs(_)
\* A template cut into its placeholder tokens ("$" and the decimal digits of
\* an index N >= 1 that follow it) and the single characters between them.
Segs(t) ==
    IF t = <<>> THEN <<>>
    ELSE LET ds == DigitRun(Tail(t)) IN
         IF Head(t) = "$" /\ ds # <<>> /\ Head(ds) # "0"
         THEN <<[ph |-> TRUE, n |-> Atoi(ds, 0), text |-> <<"$">> \o ds]>>
              \o Segs(Drop(t, 1 + Len(ds)))
         ELSE <<[ph |-> FALSE, n |-> 0, text |-> <<Head(t)>>]>> \o Segs(Tail(t))

RECURSIVE Renders(_, _, _, _)
\* cmdText is the template segs with every character between placeholders
\* kept and, when supplied, every placeholder with an argument (index within
\* args) replaced by that argument, or, when not supplied, every placeholder
\* without an argument kept as written; the other placeholders may have
\* become anything.
Renders(cmdText, segs, args, supplied) ==
    IF segs = <<>> THEN cmdText = <<>>
    ELSE LET sg == Head(segs)
             inRange == sg.ph /\ sg.n <= Len(args)
             free == sg.ph /\ (inRange # supplied)
             image == IF inRange THEN args[sg.n] ELSE sg.text
         IN  IF free
             THEN \E k \in 0..Len(cmdText) :
                      Renders(Drop(cmdText, k), Tail(segs), args, supplied)
             ELSE /\ HasPrefix(cmdText, image)
                  /\ Renders(Drop(cmdText, Len(image)), Tail(segs), args, supplied)

Blank(t) == \A i \in 1..Len(t) : IsSpace(t[i])

Lines(f) == {i \in 1..Len(out) : out[i].fmt = f}

-----------------------------------------------------------------------------
(* Properties.                                                             *)

\* C1: edit on an alias that is not in the store reports "alias not found",
\* leaves the store exactly as it was (no entry for the alias is created)
\* and does not print the confirmation "Command updated".
C1_EditMissingLeavesStore ==
    [][(Dispatched("edit") /\ pc' = "returned"
          /\ Find(argv).args[1] \notin DOMAIN store)
       => /\ store' = store
          /\ out' = Append(out, Line("Error editing command: %v",
                                     "alias not found", <<>>))
          /\ \A i \in 1..Len(out') :
                out'[i].fmt # "Command updated for alias: %s"]_vars

\* C1 witness: edit of a non-empty alias has returned from a non-empty store
\* that does not hold the alias.
C1_Witness ==
    /\ Called("edit")
    /\ store # <<>>
    /\ Find(argv).args[1] # EmptyStr
    /\ Find(argv).args[1] \notin DOMAIN store
    /\ Lines("Error editing command: %v") # {}

\* C2: the store holds, for every alias, the command words of its most recent
\* confirmed save or edit joined with single spaces, and nothing else; list
\* prints exactly one "<alias>: <template>" line per stored alias; a save of
\* a non-empty alias fails only when the storage write does, also when the
\* alias already exists.
C2_LastWriteWinsAndListed ==
    /\ DOMAIN store = DOMAIN written
    /\ \A a \in DOMAIN store : store[a] = Join(written[a], <<" ">>)
    /\ Called("list") =>
          /\ Len(out) = Cardinality(DOMAIN written)
          /\ {out[i] : i \in 1..Len(out)}
               = {Line("%s: %s", NoErr, <<a, Join(written[a], <<" ">>)>>) :
                     a \in DOMAIN written}
    /\ (Called("save") /\ Find(argv).args[1] # EmptyStr) =>
          /\ Len(out) = 1
          /\ out[1].err \in {NoErr, "write failed"}
          /\ out[1].err = NoErr =>
                /\ out[1] = Line("Command saved with alias: %s", NoErr,
                                 <<Find(argv).args[1]>>)
                /\ written[Find(argv).args[1]] = Tail(Find(argv).args)

\* C2 witness: list has printed two aliases, one of them saved with two words.
C2_Witness ==
    /\ Called("list")
    /\ Len(out) = 2
    /\ \E a \in DOMAIN written : Len(written[a]) = 2

\* C3: run replaces every placeholder $N of the stored template, 1 <= N <=
\* len(args), by args[N-1] in the command string it tokenizes, whatever text
\* the argument values hold.
C3_PlaceholderReplaced ==
    (RunCalled /\ RunAlias \in DOMAIN store)
    => Renders(command, Segs(store[RunAlias]), RunArgs, TRUE)

\* C4: run leaves every placeholder $K of the stored template with K >
\* len(args) in the command string character for character, and reports no
\* error about it.
C4_MissingPlaceholderKept ==
    (RunCalled /\ RunAlias \in DOMAIN store)
    => /\ Renders(command, Segs(store[RunAlias]), RunArgs, FALSE)
       /\ Lines("Error retrieving command: %v") = {}

\* C5: run hands a command to the process spawner if and only if the alias is
\* stored and the substituted template has a field: an absent alias reports
\* "alias not found", a blank substituted template reports "Empty command",
\* neither spawns; otherwise exactly one command is run, its name the first
\* field and its arguments the remaining fields in order.
C5_SpawnIffResolvable ==
    RunCalled =>
      LET present == RunAlias \in DOMAIN store IN
      /\ (execs # <<>>) <=> (present /\ ~Blank(command))
      /\ ~present =>
            /\ out = <<Line("Error retrieving command: %v", "alias not found", <<>>)>>
            /\ waits = 0
      /\ (present /\ Blank(command)) =>
            /\ out = <<Line("Empty command", NoErr, <<>>)>>
            /\ waits = 0
      /\ (present /\ ~Blank(command)) =>
            /\ Len(execs) = 1
            /\ waits = 1
            /\ <<execs[1].name>> \o execs[1].args = Fields(command)
            /\ Lines("Empty command") = {}

\* C5 witness: run of a stored alias has spawned a program with arguments.
C5_Witness ==
    /\ Called("run")
    /\ RunAlias \in DOMAIN store
    /\ Len(execs) = 1
    /\ execs[1].args # <<>>

\* C6 as stated: a non-zero exit status implies that the command-line parser
\* reported a usage error.
C6_NonZeroOnlyOnUsageError ==
    (pc = "exited" /\ exitCode # 0) => UsageReported

\* C6 amended: a non-zero exit status implies a usage error of the parser or
\* a failed start-up step (bolt.Open or the bucket creation, both log.Fatal);
\* either one exits 1, and a process whose handler printed an alias-not-found,
\* empty-command, spawn or storage error exits 0.
C6_NonZeroOnlyOnUsageOrStartup ==
    pc = "exited" =>
      /\ exitCode \in {0, 1}
      /\ (exitCode # 0) <=> (UsageReported \/ FatalLogged)
      /\ FatalLogged => (~closed /\ txs <= 1)
      /\ (\E i \in 1..Len(out) :
              out[i].fmt \in {"Error saving command: %v", "Error editing command: %v",
                              "Error retrieving command: %v", "Empty command",
                              "Error executing command: %v"})
            => exitCode = 0

\* C6 witness: a process that opened the store has exited 1 on a usage error.
C6_Witness ==
    /\ pc = "exited"
    /\ opened
    /\ exitCode = 1
    /\ UsageReported

\* C7: a bare invocation "<alias> [args...]" whose first word names no
\* subcommand ends as "run <alias> [args...]" does on the same store: the
\* same substituted command, the same spawned program and arguments or the
\* same reported error, and exit status 0.
C7_BareIsRun ==
    (pc = "exited" /\ ~FatalLogged /\ argv # <<>> /\ argv[1] \notin SubNames)
    => /\ exitCode = 0
       /\ \E runErr \in BOOLEAN :
             LET r == runCommand(store, argv[1], Tail(argv), runErr) IN
             /\ command = r.command
             /\ execs = r.execs
             /\ out = r.out

\* C8: no step removes an alias from the store; only save adds one; edit
\* changes only the value of an alias that is already stored and save only
\* the entry of its own alias; list and run leave the store unchanged.
C8_NoEntryDeleted ==
    [][/\ DOMAIN store \subseteq DOMAIN store'
       /\ DOMAIN store' # DOMAIN store => Dispatched("save")
       /\ store' # store =>
             /\ Dispatched("save") \/ Dispatched("edit")
             /\ Dispatched("edit") => Find(argv).args[1] \in DOMAIN store
             /\ \A k \in DOMAIN store \ {Find(argv).args[1]} : store'[k] = store[k]
       /\ (Dispatched("list") \/ Dispatched("run") \/ Dispatched("root"))
             => store' = store]_vars

\* C8 witness: a confirmed edit has returned with two aliases in the store.
C8_Witness ==
    /\ Called("edit")
    /\ Lines("Command updated for alias: %s") # {}
    /\ Cardinality(DOMAIN store) = 2

\* C9: a process that opened the store has performed db.Close() by the time
\* it has exited, on every path of main.
C9_ClosedOnExit ==
    (pc = "exited" /\ opened) => closed

\* C10 as stated: counted from start to exit, a process makes at most one
\* store transaction and never both a store transaction and a child wait.
C10_OneTransactionOrOneWait ==
    pc = "exited" => (txs <= 1 /\ ~(txs >= 1 /\ waits >= 1))

\* C10 amended: counted from start to exit, a process makes at most two store
\* transactions, the start-up Update that creates the bucket and at most one
\* transaction of the handler it dispatches to, and at most one child wait,
\* which comes after the start-up Update and the View of run.
C10_StartupPlusOneTransaction ==
    pc = "exited" =>
      /\ txs <= 2
      /\ waits <= 1
      /\ txs = 2 => (closed /\ (Find(argv).cmd # "root" \/ Len(Find(argv).args) > 0))
      /\ waits = 1 => (txs = 2 /\ Len(execs) = 1 /\ Find(argv).cmd \in {"run", "root"})

\* C10 witness: a process has exited after the start-up Update, the View of
\* run and one child wait.
C10_Witness ==
    /\ pc = "exited"
    /\ txs = 2
    /\ waits = 1

=============================================================================
